---- MODULE Spec2Model ----
(***************************************************************************)
(* KGR leaderboard API (src/server.js, lines 1-204: the "Autoprune"        *)
(* variant).  POST /submitScore verifies a Stellar payment on Horizon and  *)
(* stores a score row in the Postgres table "scores"; every await of the   *)
(* handler is a suspension point at which other requests may run.          *)
(***************************************************************************)
EXTENDS Integers, Sequences, FiniteSets, TLC

(***************************************************************************)
(* Bounds of the model.                                                    *)
(***************************************************************************)
\* LIMIT of the auto-trim (src/server.js:185 keeps 100 rows), scaled down.
Capacity == 2
\* Number of values drawn from the id sequence in one behaviour, with
\* concurrent requests and with one request at a time.
MaxIds == 4
MaxIdsSeq == 2
MaxIdsBoard == 4
MaxIdsStore == 3
\* Number of clock ticks (of TickMs each) in one behaviour.
MaxTicks == 1
\* The scores given to clampScore lie within ClampRadius half units of 0 and
\* of the upper bound.
ClampRadius == 30
\* max of the rate limiter (src/server.js:112 admits 12 per window), scaled
\* down; one request of a key beyond it arrives in one window.
MaxHits == 2

\* Request slots: the requests that may be in flight at the same time.
Reqs == {1, 2}

(***************************************************************************)
(* Program constants.                                                      *)
(***************************************************************************)
KALE_CODE == "KALE"
KALE_ISSUER == "GBDVX4VELCDSQ54KQJYTNHXAHFLBCA77ZY2USQBM4CSHTTV7DME7KALE"
TREASURY == "GDIH6XE3UZ5CW37X3OKVS3SYKHG32PRPXPT3722NJ2AY3MOLCQNMUUTT"
\* Upper bound of clampScore and of the CHECK constraint on scores.score.
MaxScore == 1000000000
\* {55} of the address pattern /^G[A-Z2-7]{55}$/.
AddrTailLen == 55
\* isRecent(tx.created_at, 30): the recency window in minutes.
RecentMinutes == 30
\* limit=200 of the operations page requested from Horizon.
OpsPageLimit == 200
\* topN(10) of the success response.
Top10 == 10
\* GET /leaderboard: Math.max(1, Math.min(Number(req.query.limit) || 50, 100)).
MinLimit == 1
DefaultLimit == 50
MaxLimit == 100

(***************************************************************************)
(* JavaScript values.  A string that the code inspects character by        *)
(* character (the address) is a sequence of one-character strings; other   *)
(* strings are TLA+ strings.  Undefined stands for a field that is absent. *)
(* A score is [type, inf, h]: type is the typeof of the JSON value; for a  *)
(* number, inf is 1 for Infinity (JSON 1e999), -1 for -Infinity, 0 for a   *)
(* finite number, whose value is h / 2.                                    *)
(***************************************************************************)
Undefined == "<undefined>"

Truthy(s) == s # Undefined /\ s # ""

Rep(c, n) == [i \in 1..n |-> c]

LowerChars ==
    << "a", "b", "c", "d", "e", "f", "g", "h", "i", "j", "k", "l", "m",
       "n", "o", "p", "q", "r", "s", "t", "u", "v", "w", "x", "y", "z" >>

UpperChars ==
    << "A", "B", "C", "D", "E", "F", "G", "H", "I", "J", "K", "L", "M",
       "N", "O", "P", "Q", "R", "S", "T", "U", "V", "W", "X", "Y", "Z" >>

Range(f) == {f[i] : i \in DOMAIN f}

Base32Digits == {"2", "3", "4", "5", "6", "7"}

\* The upper-case letter of each lower-case letter.
UpperOf == [c \in Range(LowerChars) |-> UpperChars[CHOOSE i \in 1..26 : LowerChars[i] = c]]

\* String.prototype.toUpperCase, character by character.
toUpperCase(s) ==
    [i \in DOMAIN s |-> IF s[i] \in DOMAIN UpperOf THEN UpperOf[s[i]] ELSE s[i]]

\* The character class [A-Z2-7].
AddressChars == Range(UpperChars) \cup Base32Digits

\* /^G[A-Z2-7]{55}$/.test(s)
AddressPattern(s) ==
    /\ Len(s) = 1 + AddrTailLen
    /\ s[1] = "G"
    /\ \A i \in 2..Len(s) : s[i] \in AddressChars

Num(h) == [type |-> "number", inf |-> 0, h |-> h]
Infinity == [type |-> "number", inf |-> 1, h |-> 0]
NegInfinity == [type |-> "number", inf |-> -1, h |-> 0]
StringScore == [type |-> "string", inf |-> 0, h |-> 0]

Min(a, b) == IF a < b THEN a ELSE b

\* clampScore without Math.min.
clampScoreNoMax(raw) ==
    IF raw.inf # 0 \/ raw.h \div 2 < 0 THEN 0 ELSE raw.h \div 2

\* clampScore without the test n < 0.
clampScoreNoNegative(raw) ==
    IF raw.inf # 0 THEN 0 ELSE Min(raw.h \div 2, MaxScore)

\* clampScore(raw): n = Math.floor(Number(raw)); 0 when n is not finite or is
\* negative; otherwise Math.min(n, 1_000_000_000).
clampScore(raw) ==
    LET n == raw.h \div 2
    IN  IF raw.inf # 0 \/ n < 0 THEN 0 ELSE Min(n, MaxScore)

(***************************************************************************)
(* Number(text) for the text of a query parameter.  A JavaScript number is *)
(* [nan, h]: NaN, or the value h / 2.  The texts read here are the empty   *)
(* text (0), an optional "-", decimal digits and an optional ".5"; any     *)
(* other text is NaN.                                                      *)
(***************************************************************************)
Digits == << "0", "1", "2", "3", "4", "5", "6", "7", "8", "9" >>

DigitValue(c) == (CHOOSE i \in 1..10 : Digits[i] = c) - 1

RECURSIVE ParseDigits(_)
ParseDigits(s) ==
    IF s = << >> THEN 0
    ELSE 10 * ParseDigits(SubSeq(s, 1, Len(s) - 1)) + DigitValue(s[Len(s)])

JsNaN == [nan |-> TRUE, h |-> 0]
JsNum(h) == [nan |-> FALSE, h |-> h]

NumberOf(text) ==
    LET neg == text # << >> /\ text[1] = "-"
        body == IF neg THEN Tail(text) ELSE text
        half == Len(body) >= 3 /\ SubSeq(body, Len(body) - 1, Len(body)) = << ".", "5" >>
        int == IF half THEN SubSeq(body, 1, Len(body) - 2) ELSE body
        m == 2 * ParseDigits(int) + (IF half THEN 1 ELSE 0)
    IN  IF text = << >> THEN JsNum(0)
        ELSE IF int = << >> \/ \E i \in DOMAIN int : int[i] \notin Range(Digits) THEN JsNaN
        ELSE JsNum(IF neg THEN 0 - m ELSE m)

Max(a, b) == IF a > b THEN a ELSE b

\* req.query.limit: absent, or the text of the parameter.
NoLimit == [present |-> FALSE, text |-> << >>]
Limit(text) == [present |-> TRUE, text |-> text]

\* lim = Math.max(1, Math.min(Number(req.query.limit) || 50, 100)), in half
\* units; Number(undefined) is NaN, and NaN and 0 are falsy.
limOf(query) ==
    LET n == IF query.present THEN NumberOf(query.text) ELSE JsNaN
        v == IF n.nan \/ n.h = 0 THEN 2 * DefaultLimit ELSE n.h
    IN  Max(2 * MinLimit, Min(v, 2 * MaxLimit))


(***************************************************************************)
(* Inputs.  Addresses a client may send, and the scores it may claim.      *)
(***************************************************************************)
AddrA == <<"G">> \o Rep("A", AddrTailLen)
AddrALower == <<"g">> \o Rep("a", AddrTailLen)
AddrB == <<"G">> \o Rep("B", AddrTailLen - 1) \o <<"7">>
AddrShort == <<"G">> \o Rep("A", AddrTailLen - 1)
AddrLong == <<"G">> \o Rep("A", AddrTailLen + 1)
AddrDigit == <<"G">> \o Rep("A", AddrTailLen - 1) \o <<"1">>
NoAddress == << >>

Addresses == {NoAddress, AddrALower, AddrB, AddrShort, AddrLong, AddrDigit}

\* -0.5, 42.5, 1_000_000_001.5, Infinity (JSON 1e999), and a score sent as a string.
Scores == {Num(-1), Num(85), Num(2 * MaxScore + 3), Infinity, StringScore}

\* The numbers around both ends of the range, in half units, and the two
\* infinities (JSON 1e999 and -1e999).
ClampInputs ==
    {Num(h) : h \in ((0 - ClampRadius)..ClampRadius)
                    \cup ((2 * MaxScore - ClampRadius)..(2 * MaxScore + ClampRadius))}
    \cup {Infinity, NegInfinity}

TxHashes == {"T1", "T2", "T3", "TB", "TF", "TM", "TW", "TX"}

\* The request bodies of the specification of one request at a time: the
\* shapes, every address with one transaction, every transaction with one
\* claimed payer, and every numeric score with a transaction that verifies.
Bodies ==
    [txHash : {"", "T1"}, address : {NoAddress, AddrALower, AddrDigit},
     score : {Num(85), StringScore}]
    \cup [txHash : {"T1"}, address : Addresses, score : {Num(85)}]
    \cup [txHash : TxHashes, address : {AddrALower}, score : {Num(85)}]
    \cup [txHash : {"T1"}, address : {AddrALower}, score : Scores]
    \cup [txHash : {"T2"}, address : {AddrB}, score : {Num(85)}]

\* The request bodies of the specification of concurrent requests: the
\* transactions that verify, each with its payer, and two scores.
RaceBodies ==
    [txHash : {"T1"}, address : {AddrALower}, score : {Num(2 * MaxScore + 3)}]
    \cup [txHash : {"T3"}, address : {AddrALower}, score : {Num(85)}]
    \cup [txHash : {"T2"}, address : {AddrB}, score : {Num(85)}]

\* The request bodies of the specification with GET /leaderboard: those of
\* RaceBodies, and the transaction of AddrB with a score above the range.
BoardBodies ==
    RaceBodies
    \cup [txHash : {"T2"}, address : {AddrB}, score : {Num(2 * MaxScore + 3)}]

\* The client addresses (req.ip) and the requests of the specification of the
\* rate limiter, each a body and the client address it comes from: one
\* address in lower case and in upper case from two clients, and a body
\* without address (NoAddress) from either client.
Ips == {<<"1">>, <<"2">>}

RateBody(address) == [txHash |-> "T1", address |-> address, score |-> Num(85)]

RateRequests ==
    {<<RateBody(AddrALower), <<"1">> >>, <<RateBody(AddrA), <<"2">> >>}
    \cup {<<RateBody(NoAddress), ip>> : ip \in Ips}

\* The limit parameters of GET /leaderboard: absent, 1, 2, 500, 0, -5, 2.5
\* and a text that is not a number.
Queries ==
    {NoLimit, Limit(<<"1">>), Limit(<<"2">>), Limit(<<"5", "0", "0">>), Limit(<<"0">>),
     Limit(<<"-", "5">>), Limit(<<"2", ".", "5">>), Limit(<<"a", "b", "c">>)}

(***************************************************************************)
(* Time.  Date.now() and the database's NOW() read one clock, in           *)
(* milliseconds; it advances in ticks of ten minutes.                      *)
(***************************************************************************)
TickMs == 10 * 60 * 1000

(***************************************************************************)
(* The ledger (Horizon).  Transactions are immutable, so the ledger is a   *)
(* fixed function of the transaction hash; "TX" is a hash Horizon does not *)
(* know (404).  T3 is exactly RecentMinutes old when the clock starts; TB  *)
(* is unsuccessful, carries a memo, is older and pays nothing.             *)
(***************************************************************************)
Payment(from, amount) ==
    [type |-> "payment", to |-> TREASURY, from |-> from,
     asset_type |-> "credit_alphanum4", asset_code |-> KALE_CODE,
     asset_issuer |-> KALE_ISSUER, amount |-> amount]

NativePayment(from) ==
    [type |-> "payment", to |-> TREASURY, from |-> from,
     asset_type |-> "native", asset_code |-> Undefined,
     asset_issuer |-> Undefined, amount |-> "1.0000000"]

Tx(successful, memo_type, created_at) ==
    [successful |-> successful, memo_type |-> memo_type, created_at |-> created_at]

NoTx == Tx(FALSE, Undefined, 0)

HorizonKnows(txHash) == txHash \in TxHashes \ {"TX"}

\* txHash is put into the URL as given; a "./" before the hash is a dot
\* segment of the path, which the URL addresses without it.
DotSegment == "./"

Aliased(txHash) == DotSegment \o txHash

\* The transaction that .../transactions/{txHash} addresses.
RemoveDotSegments(txHash) ==
    IF \E h \in TxHashes : txHash = Aliased(h)
    THEN CHOOSE h \in TxHashes : txHash = Aliased(h)
    ELSE txHash

\* The txHash strings that requests carry.
SentHashes == TxHashes \cup {""} \cup {Aliased(h) : h \in TxHashes}

\* GET /transactions/{txHash}
HorizonTx(txHash) ==
    CASE txHash = "T1" -> Tx(TRUE, "none", 0)
      [] txHash = "T2" -> Tx(TRUE, Undefined, 0)
      [] txHash = "T3" -> Tx(TRUE, "none", 0 - RecentMinutes * 60 * 1000)
      [] txHash = "TB" -> Tx(FALSE, "text", 0 - (RecentMinutes + 1) * 60 * 1000)
      [] txHash = "TF" -> Tx(FALSE, "none", 0)
      [] txHash = "TM" -> Tx(TRUE, "text", 0)
      [] txHash = "TW" -> Tx(TRUE, "none", 0)
      [] OTHER -> NoTx

\* The operations of the transaction, in ascending order.
HorizonOps(txHash) ==
    CASE txHash = "T2" -> <<Payment(AddrB, "2.0000000"), NativePayment(AddrB),
                            Payment(AddrB, "1.0000000")>>
      [] txHash = "TW" -> <<Payment(AddrA, "1.0000000"), Payment(AddrA, "1.0000000")>>
      [] txHash \in {"T1", "T3", "TF", "TM"} -> <<Payment(AddrA, "1.0000000")>>
      [] OTHER -> << >>

(***************************************************************************)
(* State.                                                                  *)
(***************************************************************************)
VARIABLES
    store,      \* the rows of table scores
    nextId,     \* the BIGSERIAL sequence behind scores.id
    clock,      \* ticks elapsed; the time is clock * TickMs
    req,        \* per request slot: position in the handler, locals, response
    accepted,   \* history: per txHash, the number of 200 responses sent
    trimmed,    \* history: no successful INSERT since the last auto-trim
    get,        \* the GET /leaderboard request: position, limit, response
    inserted,   \* history: every row an INSERT has written
    limiter     \* the hits of the rate limiter's store in the current window,
                \* and the history of the window: per origin, the requests
                \* that arrived and those that reached the handler

vars == <<store, nextId, clock, req, accepted, trimmed, get, inserted, limiter>>

Now == clock * TickMs

\* keyGenerator without toUpperCase.
keyGeneratorAsSent(body, ip) ==
    IF body.address # NoAddress
    THEN <<"a", "d", "d", "r", ":">> \o body.address
    ELSE <<"i", "p", ":">> \o ip

\* keyGenerator(req): "addr:" and the uppercased body address when it is a
\* string, else "ip:" and req.ip.
keyGenerator(body, ip) ==
    IF body.address # NoAddress
    THEN <<"a", "d", "d", "r", ":">> \o toUpperCase(body.address)
    ELSE <<"i", "p", ":">> \o ip

\* A table of counts: the keys that have been counted, each with its count.
NoCounts == [k \in {} |-> 0]
CountOf(counts, k) == IF k \in DOMAIN counts THEN counts[k] ELSE 0
Incremented(counts, k) ==
    [x \in DOMAIN counts \cup {k} |-> IF x = k THEN CountOf(counts, k) + 1 ELSE counts[x]]

\* The limiter's store at the start of a window.
NoHits == [hits |-> NoCounts, arrived |-> NoCounts, admitted |-> NoCounts]

\* No GET /leaderboard has arrived.  lim is in half units, as a score is.
NoGet == [pc |-> "idle", query |-> NoLimit, lim |-> 0, status |-> 0, top |-> << >>]

NoResp == [status |-> 0, text |-> "", top10 |-> << >>, retryAfter |-> ""]
NoBody == [txHash |-> "", address |-> NoAddress, score |-> StringScore]

\* A slot in which no handler runs.  After the handler returns, its request
\* body, its response and the history of the request remain.
Idle ==
    [pc |-> "idle", body |-> NoBody, address |-> NoAddress, normScore |-> 0,
     tx |-> NoTx, checkedAt |-> 0, resp |-> NoResp,
     fetches |-> 0, thrown |-> "none", wrote |-> FALSE, after200 |-> FALSE]

\* res.status(status).send(text) / res.json(...), then return: q is the request.
Respond(q, status, text, top10) ==
    [Idle EXCEPT !.pc = "done", !.body = q.body,
                 !.resp = [status |-> status, text |-> text, top10 |-> top10,
                           retryAfter |-> ""],
                 !.fetches = q.fetches, !.thrown = q.thrown,
                 !.wrote = q.wrote, !.after200 = q.after200]

\* catch (e) { return res.status(500).send(e.message || "server error") }
Catch(q, cause) ==
    [Respond(q, 500, cause, << >>) EXCEPT !.thrown = cause]

TypeOK ==
    /\ nextId \in 1..(MaxIds + 1)
    /\ clock \in 0..MaxTicks
    /\ \A r \in Reqs : req[r].pc \in
         {"idle", "txAlreadyUsed", "getTx", "getOps", "insert", "prune", "topN", "done"}

Init ==
    /\ store = {}
    /\ nextId = 1
    /\ clock = 0
    /\ req = [r \in Reqs |-> Idle]
    /\ accepted = [h \in SentHashes |-> 0]
    /\ trimmed = TRUE
    /\ get = NoGet
    /\ inserted = {}
    /\ limiter = NoHits


(***************************************************************************)
(* Helpers of the handler.                                                 *)
(***************************************************************************)
\* isRecent(iso, minutes), evaluated at time now.
isRecent(now, iso, minutes) == (now - iso) <= minutes * 60 * 1000

\* txAlreadyUsed(txHash): SELECT 1 FROM scores WHERE tx_hash = $1 LIMIT 1
txAlreadyUsed(rows, txHash) == \E row \in rows : row.tx_hash = txHash

\* ORDER BY score DESC, created_at ASC, id ASC
RankBefore(a, b) ==
    \/ a.score > b.score
    \/ a.score = b.score /\ a.created_at < b.created_at
    \/ a.score = b.score /\ a.created_at = b.created_at /\ a.id < b.id

\* The position of row in rows under the ORDER BY, from 1.
Position(row, rows) == 1 + Cardinality({x \in rows : RankBefore(x, row)})

\* SELECT id FROM scores ORDER BY score DESC, created_at ASC, id ASC LIMIT n
TopIds(rows, n) == {row.id : row \in {x \in rows : Position(x, rows) <= n}}

\* topN(n): the first n rows of the ORDER BY, projected.
topN(rows, n) ==
    [i \in 1..Min(n, Cardinality(rows)) |->
        LET row == CHOOSE x \in rows : Position(x, rows) = i
        IN  [address |-> row.address, score |-> row.score,
             txHash |-> row.tx_hash, paidAtISO |-> row.paid_at]]

\* The auto-trim that keeps the rows inserted last.
AutoTrimByAge(rows) ==
    {row \in rows : Cardinality({x \in rows : x.id > row.id}) < Capacity}

\* The auto-trim with ties of score broken by the larger id.
AutoTrimByScore(rows) ==
    {row \in rows :
        Cardinality({x \in rows : \/ x.score > row.score
                                  \/ x.score = row.score /\ x.id > row.id}) < Capacity}

\* The auto-trim with a limit one too small.
AutoTrimOneFewer(rows) == {row \in rows : row.id \in TopIds(rows, Capacity - 1)}

\* The auto-trim with a limit one too large.
AutoTrimOneMore(rows) == {row \in rows : row.id \in TopIds(rows, Capacity + 1)}

\* DELETE FROM scores WHERE id NOT IN (SELECT id ... LIMIT 100)
AutoTrim(rows) == {row \in rows : row.id \in TopIds(rows, Capacity)}

\* The first page of the operations of a transaction (limit=200&order=asc).
OpsPage(ops) == SubSeq(ops, 1, Min(Len(ops), OpsPageLimit))

\* ops.filter(o => ...): the qualifying payments among ops.
validPays(ops, address) ==
    {i \in DOMAIN ops :
        /\ ops[i].type = "payment"
        /\ ops[i].to = TREASURY
        /\ ops[i].asset_type \in {"credit_alphanum4", "credit_alphanum12"}
        /\ ops[i].asset_code = KALE_CODE
        /\ ops[i].asset_issuer = KALE_ISSUER
        /\ ops[i].amount = "1.0000000"
        /\ ops[i].from = address}

\* The row an INSERT INTO scores (address, score, tx_hash, paid_at, ip, ua)
\* creates: id from the sequence, created_at DEFAULT NOW().  ip and ua are
\* provenance no statement reads back; they are left out.
NewRow(id, now, address, score, txHash, paidAt) ==
    [id |-> id, address |-> address, score |-> score, tx_hash |-> txHash,
     paid_at |-> paidAt, created_at |-> now]

\* InsertOutcome of a table without the UNIQUE constraint.
InsertOutcomeNoUnique(rows, row) ==
    IF row.score < 0 \/ row.score > MaxScore THEN "check" ELSE "ok"

\* What the table answers to the INSERT of row: the CHECK on score and the
\* UNIQUE constraint on tx_hash (ensureSchema).
InsertOutcome(rows, row) ==
    IF row.score < 0 \/ row.score > MaxScore THEN "check"
    ELSE IF \E x \in rows : x.tx_hash = row.tx_hash THEN "unique"
    ELSE "ok"


(***************************************************************************)
(* POST /submitScore, one operator per stretch of the handler between two  *)
(* awaits.  Each gives the request's record after the stretch.             *)
(***************************************************************************)
\* The handler of the limiter: Retry-After: 60 and 429 rate_limited.
RateLimited(body, after200) ==
    [Respond([Idle EXCEPT !.body = body, !.after200 = after200], 429,
             "rate_limited", << >>)
     EXCEPT !.resp.retryAfter = "60"]

\* Lines 134-144: shape check, address check, then the replay query is sent.
\* Received with the transaction requested from Horizon before the checks.
ReceivedFetchFirst(body, after200) ==
    LET q == [Idle EXCEPT !.body = body, !.after200 = after200, !.fetches = 1]
        address == toUpperCase(body.address)
    IN  IF ~Truthy(body.txHash) \/ body.address = NoAddress
           \/ body.score.type # "number"
        THEN Respond(q, 400, "txHash, address, score required", << >>)
        ELSE IF ~AddressPattern(address)
        THEN Respond(q, 400, "bad address", << >>)
        ELSE [q EXCEPT !.pc = "txAlreadyUsed", !.address = address, !.fetches = 0]

Received(body, after200) ==
    LET q == [Idle EXCEPT !.body = body, !.after200 = after200]
        address == toUpperCase(body.address)
    IN  IF ~Truthy(body.txHash) \/ body.address = NoAddress
           \/ body.score.type # "number"
        THEN Respond(q, 400, "txHash, address, score required", << >>)
        ELSE IF ~AddressPattern(address)
        THEN Respond(q, 400, "bad address", << >>)
        ELSE [q EXCEPT !.pc = "txAlreadyUsed", !.address = address]

\* Lines 144-151: the replay query has answered used; normScore; the
\* transaction is requested from Horizon.
ReplayChecked(q, used) ==
    IF used
    THEN Respond(q, 409, "tx already used", << >>)
    ELSE [q EXCEPT !.pc = "getTx", !.normScore = clampScore(q.body.score),
                   !.fetches = @ + 1]

\* Lines 151-157: the transaction has arrived at time now; successful, memo
\* and recency checks; the operations are requested.
\* TxFetched with the memo check before the check of tx.successful.
TxFetchedMemoFirst(q, tx, now) ==
    IF Truthy(tx.memo_type) /\ tx.memo_type # "none"
    THEN Respond(q, 400, "memos not allowed", << >>)
    ELSE IF tx.successful # TRUE
    THEN Respond(q, 400, "tx not successful", << >>)
    ELSE IF ~isRecent(now, tx.created_at, RecentMinutes)
    THEN Respond(q, 400, "tx too old", << >>)
    ELSE [q EXCEPT !.pc = "getOps", !.tx = tx, !.checkedAt = now,
                   !.fetches = @ + 1]

\* TxFetched without the check of tx.successful.
TxFetchedNoSuccessCheck(q, tx, now) ==
    IF Truthy(tx.memo_type) /\ tx.memo_type # "none"
    THEN Respond(q, 400, "memos not allowed", << >>)
    ELSE IF ~isRecent(now, tx.created_at, RecentMinutes)
    THEN Respond(q, 400, "tx too old", << >>)
    ELSE [q EXCEPT !.pc = "getOps", !.tx = tx, !.checkedAt = now,
                   !.fetches = @ + 1]

TxFetched(q, tx, now) ==
    IF tx.successful # TRUE
    THEN Respond(q, 400, "tx not successful", << >>)
    ELSE IF Truthy(tx.memo_type) /\ tx.memo_type # "none"
    THEN Respond(q, 400, "memos not allowed", << >>)
    ELSE IF ~isRecent(now, tx.created_at, RecentMinutes)
    THEN Respond(q, 400, "tx too old", << >>)
    ELSE [q EXCEPT !.pc = "getOps", !.tx = tx, !.checkedAt = now,
                   !.fetches = @ + 1]

\* Lines 157-173: the operations page has arrived; exactly one qualifying
\* payment; the INSERT is sent.
\* OpsFetched with the return of the rejection missing: the 400 is sent and
\* the handler goes on to the INSERT.
OpsFetchedNoReturn(q, ops) ==
    IF Cardinality(validPays(ops, q.address)) # 1
    THEN [q EXCEPT !.pc = "insert",
                   !.resp = [status |-> 400,
                             text |-> "no valid KALE payment op to treasury from address",
                             top10 |-> << >>, retryAfter |-> ""]]
    ELSE [q EXCEPT !.pc = "insert"]

OpsFetched(q, ops) ==
    IF Cardinality(validPays(ops, q.address)) # 1
    THEN Respond(q, 400, "no valid KALE payment op to treasury from address", << >>)
    ELSE [q EXCEPT !.pc = "insert"]

\* getJson failed as a rejection: the failure is reported as a transaction
\* that is not successful.
FetchFailedAsRejection(q) ==
    [Respond(q, 400, "tx not successful", << >>) EXCEPT !.thrown = "ledger"]

\* getJson threw (fetch failed, or the status was not ok): the error reaches
\* the catch of the handler.
FetchFailed(q) == Catch(q, "ledger")

(***************************************************************************)
(* Actions.                                                                *)
(***************************************************************************)
\* A request arrives in a free slot and runs to its first await.
SubmitScore(r, body, maxIds) ==
    /\ req[r].pc \in {"idle", "done"}
    /\ nextId + Cardinality({o \in Reqs : req[o].pc \notin {"idle", "done"}}) <= maxIds
    /\ req' = [req EXCEPT ![r] = Received(body, accepted[body.txHash] > 0)]
    /\ UNCHANGED <<store, nextId, clock, accepted, trimmed, get, inserted, limiter>>

\* A request arrives from ip at submitLimiter: the hits of its key are
\* incremented; above max the limiter's handler answers, else the route
\* handler runs to its first await.
SubmitLimited(r, body, ip, maxIds) ==
    LET key == keyGenerator(body, ip)
        totalHits == CountOf(limiter.hits, key) + 1
        origin == <<body.address, ip>>
    IN  /\ req[r].pc \in {"idle", "done"}
        /\ nextId + Cardinality({o \in Reqs : req[o].pc \notin {"idle", "done"}}) <= maxIds
        /\ totalHits <= MaxHits + 1
        /\ IF totalHits > MaxHits
           THEN /\ req' = [req EXCEPT ![r] = RateLimited(body, accepted[body.txHash] > 0)]
                /\ limiter' = [limiter EXCEPT !.hits = Incremented(@, key),
                                              !.arrived = Incremented(@, origin)]
           ELSE /\ req' = [req EXCEPT ![r] = Received(body, accepted[body.txHash] > 0)]
                /\ limiter' = [limiter EXCEPT !.hits = Incremented(@, key),
                                              !.arrived = Incremented(@, origin),
                                              !.admitted = Incremented(@, origin)]
        /\ UNCHANGED <<store, nextId, clock, accepted, trimmed, get, inserted>>

\* The window of the limiter's store ends (every windowMs): all hits are reset.
WindowReset ==
    /\ limiter # NoHits
    /\ limiter' = NoHits
    /\ UNCHANGED <<store, nextId, clock, req, accepted, trimmed, get, inserted>>

\* await txAlreadyUsed(txHash) completes: the SELECT ran, or pool.query threw.
TxAlreadyUsedDone(r, dbMayFail) ==
    /\ req[r].pc = "txAlreadyUsed"
    /\ \/ req' = [req EXCEPT ![r] =
                    ReplayChecked(req[r], txAlreadyUsed(store, req[r].body.txHash))]
       \/ /\ dbMayFail
          /\ req' = [req EXCEPT ![r] = Catch(req[r], "db")]
    /\ UNCHANGED <<store, nextId, clock, accepted, trimmed, get, inserted, limiter>>

\* await getJson(.../transactions/{txHash}) completes: Horizon answered the
\* transaction, or fetch threw or the status was not ok.
GetTxDone(r) ==
    /\ req[r].pc = "getTx"
    /\ \/ /\ HorizonKnows(RemoveDotSegments(req[r].body.txHash))
          /\ req' = [req EXCEPT ![r] =
                       TxFetched(req[r], HorizonTx(RemoveDotSegments(req[r].body.txHash)), Now)]
       \/ req' = [req EXCEPT ![r] = FetchFailed(req[r])]
    /\ UNCHANGED <<store, nextId, clock, accepted, trimmed, get, inserted, limiter>>

\* await getJson(.../operations?limit=200&order=asc) completes.
GetOpsDone(r) ==
    /\ req[r].pc = "getOps"
    /\ \/ req' = [req EXCEPT ![r] = OpsFetched(req[r],
                               OpsPage(HorizonOps(RemoveDotSegments(req[r].body.txHash))))]
       \/ req' = [req EXCEPT ![r] = FetchFailed(req[r])]
    /\ UNCHANGED <<store, nextId, clock, accepted, trimmed, get, inserted, limiter>>

\* await pool.query(INSERT ...) completes: the row is written, or the table
\* refuses it (the error is thrown into the catch), or pool.query threw.
InsertDone(r, dbMayFail) ==
    /\ req[r].pc = "insert"
    /\ LET q == req[r]
           row == NewRow(nextId, Now, q.address, q.normScore, q.body.txHash,
                         q.tx.created_at)
           outcome == InsertOutcome(store, row)
       IN  \/ /\ outcome = "ok"
              /\ store' = store \cup {row}
              /\ nextId' = nextId + 1
              /\ trimmed' = FALSE
              /\ inserted' = inserted \cup {row}
              /\ req' = [req EXCEPT ![r] = [@ EXCEPT !.pc = "prune", !.wrote = TRUE]]
           \/ /\ outcome # "ok"
              /\ nextId' = nextId + 1
              /\ req' = [req EXCEPT ![r] = Catch(q, outcome)]
              /\ UNCHANGED <<store, trimmed, inserted>>
           \/ /\ dbMayFail
              /\ req' = [req EXCEPT ![r] = Catch(q, "db")]
              /\ UNCHANGED <<store, nextId, trimmed, inserted>>
    /\ UNCHANGED <<clock, accepted, get, limiter>>

\* await pool.query(DELETE ...) completes: the auto-trim ran, or threw.
PruneDone(r, dbMayFail) ==
    /\ req[r].pc = "prune"
    /\ \/ /\ store' = AutoTrim(store)
          /\ trimmed' = TRUE
          /\ req' = [req EXCEPT ![r] = [@ EXCEPT !.pc = "topN"]]
       \/ /\ dbMayFail
          /\ req' = [req EXCEPT ![r] = Catch(req[r], "db")]
          /\ UNCHANGED <<store, trimmed>>
    /\ UNCHANGED <<nextId, clock, accepted, get, inserted, limiter>>

\* await topN(10) completes: res.json({ ok: true, top10 }), or it threw.
TopNDone(r, dbMayFail) ==
    /\ req[r].pc = "topN"
    /\ \/ /\ req' = [req EXCEPT ![r] = Respond(req[r], 200, "ok", topN(store, Top10))]
          /\ accepted' = [accepted EXCEPT ![req[r].body.txHash] = @ + 1]
       \/ /\ dbMayFail
          /\ req' = [req EXCEPT ![r] = Catch(req[r], "db")]
          /\ UNCHANGED accepted
    /\ UNCHANGED <<store, nextId, clock, trimmed, get, inserted, limiter>>

\* GET /leaderboard arrives: lim is computed and topN(lim) is sent.
GetLeaderboard(query) ==
    /\ get.pc # "topN"
    /\ get' = [NoGet EXCEPT !.pc = "topN", !.query = query, !.lim = limOf(query)]
    /\ UNCHANGED <<store, nextId, clock, req, accepted, trimmed, inserted, limiter>>

\* await topN(lim) completes.  The rows arrive and res.json({ top }) is sent.
\* Or the query fails: LIMIT takes a bigint, so a lim that is not an integer
\* is refused, and pool.query may throw for other reasons.  The handler has no
\* try/catch, so the rejection of the async handler is unhandled: no response
\* is sent by the handler; a framework that reports rejected handlers to
\* its error handler answers 500.
LeaderboardDone(dbMayFail) ==
    /\ get.pc = "topN"
    /\ \/ /\ get.lim % 2 = 0
          /\ get' = [get EXCEPT !.pc = "done", !.status = 200,
                                !.top = topN(store, get.lim \div 2)]
       \/ /\ dbMayFail \/ get.lim % 2 # 0
          /\ \/ get' = [get EXCEPT !.pc = "unanswered"]
             \/ get' = [get EXCEPT !.pc = "done", !.status = 500]
    /\ UNCHANGED <<store, nextId, clock, req, accepted, trimmed, inserted, limiter>>

\* Time passes.
Tick ==
    /\ clock < MaxTicks
    /\ clock' = clock + 1
    /\ UNCHANGED <<store, nextId, req, accepted, trimmed, get, inserted, limiter>>

\* The steps of the requests in the slots R; dbMayFail: pool.query may throw
\* for a reason other than a constraint of the table.
Step(R, dbMayFail) ==
    \/ \E r \in R : TxAlreadyUsedDone(r, dbMayFail)
    \/ \E r \in R : GetTxDone(r)
    \/ \E r \in R : GetOpsDone(r)
    \/ \E r \in R : InsertDone(r, dbMayFail)
    \/ \E r \in R : PruneDone(r, dbMayFail)
    \/ \E r \in R : TopNDone(r, dbMayFail)
    \/ Tick

\* Concurrent requests for transactions that verify; the database answers
\* every query.
Next ==
    \/ \E r \in Reqs, body \in RaceBodies : SubmitScore(r, body, MaxIds)
    \/ Step(Reqs, FALSE)

Spec == Init /\ [][Next]_vars

\* One request at a time, over every kind of body; any query may fail.
NextSeq ==
    \/ \E body \in Bodies : SubmitScore(1, body, MaxIdsSeq)
    \/ Step({1}, TRUE)

SpecSeq == Init /\ [][NextSeq]_vars

\* Submissions one at a time for transactions that verify, with
\* GET /leaderboard alongside; the query of GET /leaderboard may fail.
NextBoard ==
    \/ \E body \in BoardBodies : SubmitScore(1, body, MaxIdsBoard)
    \/ Step({1}, FALSE)
    \/ \E query \in Queries : GetLeaderboard(query)
    \/ LeaderboardDone(TRUE)

SpecBoard == Init /\ [][NextBoard]_vars

\* Submissions one at a time for transactions that verify; any query of the
\* handler may fail.
NextStore ==
    \/ \E body \in RaceBodies : SubmitScore(1, body, MaxIdsStore)
    \/ Step({1}, TRUE)

SpecStore == Init /\ [][NextStore]_vars

\* The limit parameters of the specification of termination: absent, and one
\* that is not an integer.
LiveQueries == {NoLimit, Limit(<<"2", ".", "5">>)}

\* A pending await of the submission in slot 1 completes.
Completes ==
    \/ TxAlreadyUsedDone(1, TRUE)
    \/ GetTxDone(1)
    \/ GetOpsDone(1)
    \/ InsertDone(1, TRUE)
    \/ PruneDone(1, TRUE)
    \/ TopNDone(1, TRUE)

\* Submissions one at a time with GET /leaderboard alongside; any query may
\* fail, and every ledger fetch and every query that was sent completes.
NextLive ==
    \/ \E body \in RaceBodies : SubmitScore(1, body, MaxIdsSeq)
    \/ Step({1}, TRUE)
    \/ \E query \in LiveQueries : GetLeaderboard(query)
    \/ LeaderboardDone(TRUE)

SpecLive ==
    /\ Init
    /\ [][NextLive]_vars
    /\ WF_vars(Completes)
    /\ WF_vars(LeaderboardDone(TRUE))

\* The request bodies of RaceBodies, and that of transaction T1 under the
\* txHash with a dot segment.
AliasBodies ==
    RaceBodies
    \cup [txHash : {Aliased("T1")}, address : {AddrALower}, score : {Num(85)}]

\* Submissions one at a time, some under a txHash with a dot segment; any
\* query of the handler may fail.
NextAlias ==
    \/ \E body \in AliasBodies : SubmitScore(1, body, MaxIdsStore)
    \/ Step({1}, TRUE)

SpecAlias == Init /\ [][NextAlias]_vars

\* Submissions one at a time through the rate limiter.
NextRate ==
    \/ \E arrival \in RateRequests : SubmitLimited(1, arrival[1], arrival[2], MaxIdsSeq)
    \/ Step({1}, FALSE)
    \/ WindowReset

SpecRate == Init /\ [][NextRate]_vars

\* One request for a transaction that verifies has arrived with a score of
\* ClampInputs; its replay query is answered and clampScore is applied.
InitClamp ==
    /\ store = {}
    /\ nextId = 1
    /\ clock = 0
    /\ \E raw \in ClampInputs :
          req = [r \in Reqs |->
                   IF r = 1
                   THEN Received([txHash |-> "T1", address |-> AddrALower, score |-> raw],
                                 FALSE)
                   ELSE Idle]
    /\ accepted = [h \in SentHashes |-> 0]
    /\ trimmed = TRUE
    /\ get = NoGet
    /\ inserted = {}
    /\ limiter = NoHits

NextClamp == TxAlreadyUsedDone(1, FALSE)

SpecClamp == InitClamp /\ [][NextClamp]_vars


(***************************************************************************)
(* Properties.                                                             *)
(***************************************************************************)
\* The request in slot r has its INSERT answered in this step, with a row.
Inserts(r) == req[r].pc = "insert" /\ req'[r].pc = "prune"

\* The handler in slot r returns in this step.
Returns(r) == req[r].pc \notin {"idle", "done"} /\ req'[r].pc = "done"

\* The payments of 1.0000000 KALE from address to the treasury among ops.
QualifyingPayments(ops, address) ==
    {i \in DOMAIN ops :
        /\ ops[i].type = "payment"
        /\ ops[i].amount = "1.0000000"
        /\ ops[i].asset_code = "KALE"
        /\ ops[i].asset_issuer = KALE_ISSUER
        /\ ops[i].from = address
        /\ ops[i].to = TREASURY}

\* The characters A-Z and 2-7.
UpperOrBase32 == Range(UpperChars) \cup {"2", "3", "4", "5", "6", "7"}

\* What C1 requires of a request q whose row is inserted.
FullyVerified(q) ==
    LET h == q.body.txHash
        claimed == toUpperCase(q.body.address)
    IN  /\ h # "" /\ h # Undefined
        /\ q.body.address # NoAddress
        /\ q.body.score.type = "number"
        /\ Len(claimed) = 56 /\ claimed[1] = "G"
        /\ \A i \in 2..56 : claimed[i] \in UpperOrBase32
        /\ HorizonKnows(h)
        /\ HorizonTx(h).successful = TRUE
        /\ HorizonTx(h).memo_type \in {Undefined, "none"}
        /\ q.checkedAt - HorizonTx(h).created_at <= 30 * 60 * 1000
        /\ Cardinality(QualifyingPayments(HorizonOps(h), claimed)) = 1

\* C1: a row is inserted into scores only by a request whose fields are
\* present and typed, whose uppercased address matches the pattern, whose
\* transaction is successful, memo-free and at most 30 minutes old when it is
\* verified, and has exactly one qualifying payment from the claimed address
\* to the treasury; the row carries that request's address and transaction.
C1_InsertOnlyIfVerified ==
    [][\A row \in store' \ store :
          \E r \in Reqs :
             /\ Inserts(r)
             /\ row.tx_hash = req[r].body.txHash
             /\ row.address = toUpperCase(req[r].body.address)
             /\ FullyVerified(req[r])]_vars

\* A row has just been inserted for a transaction that verifies.
C1_Witness ==
    \E r \in Reqs : req[r].pc = "prune" /\ txAlreadyUsed(store, req[r].body.txHash)

\* C2: at most one submission carrying a given txHash is ever answered 200.
C2_AcceptedAtMostOnce == \A h \in TxHashes : accepted[h] <= 1

\* C3: the loser of the write-time uniqueness conflict (its INSERT is pending
\* while the row of its txHash, written after its replay pre-check, is in the
\* table) is answered 409 "tx already used".
C3_RaceLoserGets409 ==
    [][\A r \in Reqs :
          (/\ req[r].pc = "insert"
           /\ txAlreadyUsed(store, req[r].body.txHash)
           /\ Returns(r))
          => req'[r].resp.status = 409 /\ req'[r].resp.text = "tx already used"]_vars

\* C4: a request that arrives after its txHash has been answered 200 is
\* answered 409 "tx already used" (here: when it is well formed, meets no
\* ledger or database failure, and no time has passed since the clock started).
C4_ResubmissionGets409 ==
    \A r \in Reqs :
       (req[r].pc = "done" /\ req[r].after200 /\ req[r].thrown = "none" /\ clock = 0)
       => req[r].resp.status = 409


\* No two rows of scores share a tx_hash.
UniqueTxHash == \A a, b \in store : a.tx_hash = b.tx_hash => a = b

\* C5: no two entries share a txHash, and an INSERT of a txHash that is
\* present fails (the error reaches the catch) and leaves the table unchanged.
C5_TxHashUnique ==
    /\ []UniqueTxHash
    /\ [][\A r \in Reqs :
            (/\ req[r].pc = "insert"
             /\ \E row \in store : row.tx_hash = req[r].body.txHash
             /\ req'[r] # req[r])
            => store' = store /\ req'[r].pc = "done" /\ req'[r].thrown # "none"]_vars

\* An INSERT has been refused by the UNIQUE constraint.
C5_Witness == \E r \in Reqs : req[r].thrown = "unique"

\* a comes before b in (score DESC, createdAt ASC, id ASC).
RanksAbove(a, b) ==
    IF a.score # b.score THEN a.score > b.score
    ELSE IF a.created_at # b.created_at THEN a.created_at < b.created_at
    ELSE a.id < b.id

\* C6: whenever every INSERT has been followed by an auto-trim, the table
\* holds at most Capacity rows; and the rows that survive an auto-trim are
\* exactly the first Capacity rows, by (score DESC, createdAt ASC, id ASC), of
\* the rows that were in the table before it.
C6_TopCapacitySurvive ==
    /\ [](trimmed => Cardinality(store) <= Capacity)
    /\ [][\A r \in Reqs :
            (req[r].pc = "prune" /\ req'[r].pc = "topN")
            => /\ store' \subseteq store
               /\ Cardinality(store') = Min(Cardinality(store), Capacity)
               /\ \A kept \in store', cut \in store \ store' : RanksAbove(kept, cut)]_vars

\* An auto-trim has deleted the row of a transaction that was answered 200,
\* and the table is full.
C6_Witness ==
    /\ trimmed
    /\ Cardinality(store) = Capacity
    /\ \E h \in TxHashes : accepted[h] >= 1 /\ ~txAlreadyUsed(store, h)

\* The response sent to q is a 400, a 409, or the 500 of a failed ledger fetch.
Rejected(q) ==
    \/ q.resp.status \in {400, 409}
    \/ q.resp.status = 500 /\ q.thrown = "ledger"

\* C7: a request that ends in a 400, in a 409 or in the 500 of a failed ledger
\* fetch has written nothing, and the step that answers it leaves the table
\* (and its id sequence) unchanged.
C7_RejectionWritesNothing ==
    /\ [](\A r \in Reqs : Rejected(req[r]) => ~req[r].wrote)
    /\ [][\A r \in Reqs :
            (req'[r] # req[r] /\ Rejected(req'[r]))
            => store' = store /\ nextId' = nextId]_vars

\* With a row in the table, a transaction with a memo has been rejected.
C7_Witness ==
    /\ store # {}
    /\ \E r \in Reqs : Rejected(req[r]) /\ req[r].resp.text = "memos not allowed"

\* The body fails a check the handler makes before its first await.
FailsLocalCheck(body) ==
    LET claimed == toUpperCase(body.address)
    IN  \/ body.txHash = "" \/ body.address = NoAddress \/ body.score.type # "number"
        \/ Len(claimed) # 56
        \/ claimed[1] # "G"
        \/ \E i \in 2..Len(claimed) : claimed[i] \notin UpperOrBase32

\* C8: a request that fails a local check is answered 400 on arrival, and a
\* request whose txHash is in the table when the replay query runs is
\* answered 409; neither has issued a ledger fetch.
C8_NoFetchBeforeLocalChecks ==
    /\ [](\A r \in Reqs :
            (req[r].pc # "idle" /\ FailsLocalCheck(req[r].body))
            => /\ req[r].pc = "done"
               /\ req[r].resp.status = 400
               /\ req[r].resp.text \in {"txHash, address, score required", "bad address"}
               /\ req[r].fetches = 0)
    /\ [](\A r \in Reqs : req[r].pc = "txAlreadyUsed" => req[r].fetches = 0)
    /\ [][\A r \in Reqs :
            (/\ req[r].pc = "txAlreadyUsed"
             /\ txAlreadyUsed(store, req[r].body.txHash)
             /\ req'[r] # req[r] /\ req'[r].thrown = "none")
            => req'[r].resp.status = 409 /\ req'[r].fetches = 0]_vars

\* A malformed address has been answered "bad address" while the table holds
\* a row.
C8_Witness ==
    /\ store # {}
    /\ \E r \in Reqs :
          /\ req[r].pc = "done"
          /\ req[r].resp.text = "bad address"
          /\ req[r].body.address = AddrLong

\* C9: a request whose ledger fetch failed is answered 500 and has written
\* nothing; the step in which the fetch fails changes neither the table nor
\* the count of accepted submissions and leaves the txHash absent from the
\* table, so the failed attempt does not make the txHash count as used.
C9_LedgerFailureIs500 ==
    /\ [](\A r \in Reqs :
            req[r].thrown = "ledger"
            => req[r].pc = "done" /\ req[r].resp.status = 500 /\ ~req[r].wrote)
    /\ [][\A r \in Reqs :
            (req[r].pc \in {"getTx", "getOps"} /\ req'[r].thrown = "ledger")
            => /\ store' = store
               /\ accepted' = accepted
               /\ ~txAlreadyUsed(store', req[r].body.txHash)]_vars

\* The operations fetch of a transaction that verifies has failed.
C9_Witness ==
    \E r \in Reqs :
       /\ req[r].thrown = "ledger"
       /\ req[r].fetches = 2
       /\ req[r].body.txHash = "T1"
       /\ ~txAlreadyUsed(store, "T1")

\* The integer nearest to the number raw in [0, 1_000_000_000], after
\* flooring; Infinity counts as above the range.
NearerBound(raw) ==
    IF raw.inf = 1 THEN 1000000000
    ELSE IF raw.inf = -1 THEN 0
    ELSE IF raw.h < 0 THEN 0
    ELSE IF raw.h >= 2 * 1000000000 THEN 1000000000
    ELSE (raw.h - (raw.h % 2)) \div 2

\* As NearerBound, but Infinity is stored as 0.
Normalized(raw) == IF raw.inf = 1 THEN 0 ELSE NearerBound(raw)

\* C10 as stated: the stored score is the claimed score floored and clamped to
\* the nearer bound of [0, 1_000_000_000].
C10_ClampedToNearerBound ==
    [][\A r \in Reqs : Inserts(r) =>
          \E row \in store' \ store : row.score = NearerBound(req[r].body.score)]_vars

\* C10, amended: every stored score is an integer in [0, 1_000_000_000]; the
\* score stored for a request is its claimed score floored and clamped to the
\* nearer bound when the claimed score is finite, and 0 when it is Infinity;
\* and no request is refused for the range of its score.
C10_StoredScoreNormalized ==
    /\ [](\A row \in store : row.score \in 0..1000000000)
    /\ [](\A r \in Reqs : req[r].thrown # "check")
    /\ [][\A r \in Reqs : Inserts(r) =>
            \E row \in store' \ store : row.score = Normalized(req[r].body.score)]_vars

\* A request that claimed Infinity has been answered 200 and its row holds 0.
C10_Witness ==
    \E r \in Reqs :
       /\ req[r].resp.status = 200
       /\ req[r].body.score = Infinity
       /\ \E row \in store : row.tx_hash = req[r].body.txHash /\ row.score = 0

\* Math.floor of the finite number raw.
FloorOf(raw) == (raw.h - (raw.h % 2)) \div 2

\* C11: clampScore returns, for every numeric score, an integer in
\* [0, 1_000_000_000]: 0 when the score is negative or not finite, its floor
\* when the floor lies in the range, and 1_000_000_000 when the floor is
\* larger; the handler goes on without an error.
C11_ClampScoreTotal ==
    \A r \in Reqs :
       (req[r].pc # "idle" /\ req[r].pc # "txAlreadyUsed")
       => LET raw == req[r].body.score
              n == req[r].normScore
          IN  /\ req[r].pc = "getTx" /\ req[r].thrown = "none"
              /\ n \in 0..1000000000
              /\ (raw.inf # 0 \/ raw.h < 0) => n = 0
              /\ (raw.inf = 0 /\ FloorOf(raw) >= 0 /\ FloorOf(raw) <= 1000000000)
                 => n = FloorOf(raw)
              /\ (raw.inf = 0 /\ FloorOf(raw) > 1000000000) => n = 1000000000

\* clampScore has been applied to -0.5 and has returned 0.
C11_Witness ==
    \E r \in Reqs :
       req[r].pc = "getTx" /\ req[r].body.score = Num(-1) /\ req[r].normScore = 0

\* The entry of a leaderboard response that shows row.
Entry(row) ==
    [address |-> row.address, score |-> row.score, txHash |-> row.tx_hash,
     paidAtISO |-> row.paid_at]

\* top lists the first min(k, number of rows) rows in ranking order.
IsFirstK(top, rows, k) ==
    /\ Len(top) = (IF k < Cardinality(rows) THEN k ELSE Cardinality(rows))
    /\ \E f \in [1..Len(top) -> rows] :
          /\ \A i \in 1..Len(top) : top[i] = Entry(f[i])
          /\ \A i, j \in 1..Len(top) : i < j => RanksAbove(f[i], f[j])
          /\ \A x \in rows \ {f[i] : i \in 1..Len(top)} :
                \A i \in 1..Len(top) : RanksAbove(f[i], x)

\* The limit is absent or the text of an integer.
IntegerOrAbsent(query) ==
    ~query.present \/ (~NumberOf(query.text).nan /\ NumberOf(query.text).h % 2 = 0)

\* L of C12: 50 when the limit is absent, else the integer N clamped to [1, 100].
ClaimedLimit(query) ==
    IF ~query.present THEN 50
    ELSE LET n == NumberOf(query.text).h \div 2
         IN  IF n < 1 THEN 1 ELSE IF n > 100 THEN 100 ELSE n

\* C12: a GET /leaderboard with limit N (an integer, or absent) that is
\* answered returns exactly the first min(L, number of rows) rows in ranking
\* order, L being N clamped to [1, 100] and 50 when N is absent (so at most
\* 100 rows for limit=500), and leaves the table unchanged.
C12_LeaderboardFirstL ==
    [][(/\ get.pc = "topN"
        /\ get'.pc = "done"
        /\ get'.status = 200
        /\ IntegerOrAbsent(get.query))
       => /\ IsFirstK(get'.top, store, ClaimedLimit(get.query))
          /\ Len(get'.top) <= 100
          /\ store' = store]_vars

\* The first n of rows by (score DESC, createdAt ASC, id ASC).
TopRows(rows, n) ==
    {x \in rows : Cardinality({y \in rows : RanksAbove(y, x)}) < n}

\* The row last inserted for txHash h.
LastRow(h) ==
    CHOOSE row \in inserted :
       /\ row.tx_hash = h
       /\ \A o \in inserted : o.tx_hash = h => o.id <= row.id

\* The request in slot r has inserted its row.
HasInserted(q) == q.wrote /\ q.pc \in {"prune", "topN", "done"}

\* C13: an auto-trim of a table that holds at most Capacity rows changes
\* nothing; and when the requests of the two slots, for different
\* transactions, have both inserted, the auto-trim after which neither is
\* between its INSERT and its auto-trim leaves exactly the first Capacity, in
\* ranking order, of the prior rows and the two new rows, in whatever order
\* the two INSERTs and the two auto-trims ran.
C13_PruneOrderFree ==
    /\ [][\A r \in Reqs :
            (req[r].pc = "prune" /\ req'[r].pc = "topN" /\ Cardinality(store) <= Capacity)
            => store' = store]_vars
    /\ [][(/\ \E r \in Reqs : req[r].pc = "prune" /\ req'[r].pc = "topN"
           /\ HasInserted(req[1]) /\ HasInserted(req[2])
           /\ req[1].body.txHash # req[2].body.txHash
           /\ \A r \in Reqs : req'[r].pc # "prune")
          => LET new == {LastRow(req[1].body.txHash), LastRow(req[2].body.txHash)}
                 prior == TopRows(inserted \ new, Capacity)
             IN  store' = TopRows(prior \cup new, Capacity)]_vars

\* Two requests in flight have both inserted and both run their auto-trim,
\* and a row has been deleted.
C13_Witness ==
    /\ req[1].pc = "topN" /\ req[2].pc = "topN"
    /\ req[1].body.txHash # req[2].body.txHash
    /\ Cardinality(inserted) > Capacity
    /\ Cardinality(store) = Capacity

\* The txHashes of which a row has been deleted.
PrunedHashes == {row.tx_hash : row \in inserted \ store}

\* C14: a txHash of which the row has been deleted by an auto-trim appears in
\* no later response of GET /leaderboard and in no later top10 snapshot.
C14_PrunedStaysAbsent ==
    /\ [][(get.pc = "topN" /\ get'.pc = "done" /\ get'.status = 200)
          => \A i \in DOMAIN get'.top : get'.top[i].txHash \notin PrunedHashes]_vars
    /\ [][\A r \in Reqs :
            (req[r].pc = "topN" /\ req'[r].resp.status = 200)
            => \A i \in DOMAIN req'[r].resp.top10 :
                  req'[r].resp.top10[i].txHash \notin PrunedHashes]_vars

\* The origins (body address and client address) of the requests.
Origins == {<<arrival[1].address, arrival[2]>> : arrival \in RateRequests}

RECURSIVE SumOver(_, _)
SumOver(f, S) ==
    IF S = {} THEN 0
    ELSE LET x == CHOOSE y \in S : TRUE
         IN  CountOf(f, x) + SumOver(f, S \ {x})

\* The origins that share the key of origin o: the same address up to case
\* when o has an address, else the same client address and no body address.
KeyMates(o) ==
    {p \in Origins :
        IF o[1] # NoAddress
        THEN p[1] # NoAddress /\ toUpperCase(p[1]) = toUpperCase(o[1])
        ELSE p[1] = NoAddress /\ p[2] = o[2]}

\* C15: within one window of the limiter at most MaxHits requests of one key
\* (the uppercased body address when there is one, else the client address)
\* reach the handler; a request that arrives when MaxHits requests of its
\* key have arrived in the window is answered 429 with Retry-After: 60 at
\* once, with no query, no ledger fetch and no write.
C15_RateLimited ==
    /\ [](\A o \in Origins : SumOver(limiter.admitted, KeyMates(o)) <= MaxHits)
    /\ [](\A r \in Reqs :
            req[r].resp.status = 429
            => req[r].pc = "done" /\ req[r].fetches = 0 /\ ~req[r].wrote)
    /\ [][\A r \in Reqs, o \in Origins :
            (/\ CountOf(limiter'.arrived, o) = CountOf(limiter.arrived, o) + 1
             /\ req'[r] # req[r]
             /\ SumOver(limiter.arrived, KeyMates(o)) >= MaxHits)
            => /\ req'[r].pc = "done"
               /\ req'[r].resp.status = 429
               /\ req'[r].resp.retryAfter = "60"
               /\ req'[r].fetches = 0
               /\ store' = store /\ nextId' = nextId /\ inserted' = inserted]_vars

\* A request has been answered 429 in a window in which requests with the
\* address in lower case and in upper case have reached the handler, and a
\* row is stored.
C15_Witness ==
    /\ store # {}
    /\ \E r \in Reqs : req[r].resp.status = 429 /\ req[r].body.address # NoAddress
    /\ \E ip \in Ips : CountOf(limiter.admitted, <<AddrALower, ip>>) = 1
    /\ \E ip \in Ips : CountOf(limiter.admitted, <<AddrA, ip>>) = 1

\* The response C16 gives: that of the first failing check, in the order
\* fields, address, replay, transaction fetch, successful, memo, age,
\* operations fetch, payment; <<status, text, ledger fetches issued>>, the text
\* of a 500 being left open ("").
FirstFailing(body, used, txFetchFails, tx, tooOld, opsFetchFails, payments) ==
    IF body.txHash = "" \/ body.address = NoAddress \/ body.score.type # "number"
    THEN <<400, "txHash, address, score required", 0>>
    ELSE IF FailsLocalCheck(body) THEN <<400, "bad address", 0>>
    ELSE IF used THEN <<409, "tx already used", 0>>
    ELSE IF txFetchFails THEN <<500, "", 1>>
    ELSE IF tx.successful # TRUE THEN <<400, "tx not successful", 1>>
    ELSE IF tx.memo_type \notin {Undefined, "none"} THEN <<400, "memos not allowed", 1>>
    ELSE IF tooOld THEN <<400, "tx too old", 1>>
    ELSE IF opsFetchFails THEN <<500, "", 2>>
    ELSE IF payments # 1
    THEN <<400, "no valid KALE payment op to treasury from address", 2>>
    ELSE <<200, "", 2>>

\* C16: the response of a rejected submission is that of the first failing
\* check in the fixed order, and no ledger fetch of a later check has been
\* issued.
C16_FirstFailingCheck ==
    [][\A r \in Reqs :
          (req'[r].pc = "done" /\ req'[r] # req[r] /\ Rejected(req'[r]))
          => LET body == req'[r].body
                 h == body.txHash
                 ledgerFails == req'[r].thrown = "ledger"
             IN  \E expected \in
                   {FirstFailing(body, txAlreadyUsed(store, h),
                                 ledgerFails /\ req[r].pc = "getTx",
                                 HorizonTx(h),
                                 IF req[r].pc = "getOps"
                                 THEN req[r].checkedAt - HorizonTx(h).created_at > 30 * 60 * 1000
                                 ELSE Now - HorizonTx(h).created_at > 30 * 60 * 1000,
                                 ledgerFails /\ req[r].pc = "getOps",
                                 Cardinality(QualifyingPayments(HorizonOps(h),
                                                                toUpperCase(body.address))))} :
                 /\ req'[r].resp.status = expected[1]
                 /\ expected[2] # "" => req'[r].resp.text = expected[2]
                 /\ req'[r].fetches = expected[3]]_vars

\* With a row stored, an unsuccessful transaction that carries a memo has been
\* answered "tx not successful".
C16_Witness ==
    /\ store # {}
    /\ \E r \in Reqs :
          /\ req[r].pc = "done"
          /\ req[r].body.txHash = "TB"
          /\ req[r].resp.text = "tx not successful"

\* C17: a stored row is never changed; a row leaves the table only in the
\* auto-trim of a request that has inserted, and only when at least Capacity
\* rows of the table rank above it; the steps of GET /leaderboard and the
\* steps that answer a rejection leave the table as it is.
C17_OnlyPruneDeletes ==
    /\ [][\A a \in store : \A b \in store' : a.id = b.id => a = b]_vars
    /\ [][\A x \in store \ store' :
            /\ \E r \in Reqs :
                  req[r].pc = "prune" /\ req[r].wrote /\ req'[r].pc = "topN"
            /\ Cardinality({y \in store : RanksAbove(y, x)}) >= Capacity]_vars
    /\ [][get' # get => store' = store]_vars
    /\ [][\A r \in Reqs :
            (req'[r] # req[r] /\ Rejected(req'[r])) => store' = store]_vars

\* A row has been deleted by an auto-trim, a submission has been rejected
\* and GET /leaderboard has been answered.
C17_Witness ==
    /\ inserted \ store # {}
    /\ get.pc = "done" /\ get.status = 200
    /\ \E r \in Reqs : req[r].pc = "done" /\ Rejected(req[r])

\* C18: every request to POST /submitScore and to GET /leaderboard is
\* answered once the calls it awaits have completed, and a request whose
\* call failed is answered with a 500.
C18_EveryRequestAnswered ==
    /\ \A r \in Reqs : (req[r].pc \notin {"idle", "done"}) ~> (req[r].pc = "done")
    /\ (get.pc = "topN") ~> (get.pc = "done")
    /\ [][\A r \in Reqs :
            (req[r].thrown = "none" /\ req'[r].thrown # "none")
            => req'[r].pc = "done" /\ req'[r].resp.status = 500]_vars
    /\ [][(get.pc = "topN" /\ get' # get /\ get'.status # 200)
            => get'.pc = "done" /\ get'.status = 500]_vars

C20_OneEntryPerLedgerTx ==
    \A a, b \in store :
        RemoveDotSegments(a.tx_hash) = RemoveDotSegments(b.tx_hash) => a = b

====
